---------------------------- MODULE Spec2Model ----------------------------
(***************************************************************************)
(* A model of the file based channel (fileWatcherChannel) of the           *)
(* amazon-ssm-agent out-of-process executer, and of its look-up of a       *)
(* process in the process table (find_process).                            *)
(*                                                                         *)
(* Text is modelled as a sequence of one-character strings, so that the    *)
(* formatting of a sequence id, its parsing, the filter isReadable and the *)
(* alphabetical order of a directory listing are computed as the code      *)
(* computes them.                                                          *)
(***************************************************************************)
EXTENDS Integers, Sequences, FiniteSets, Bags, TLC

(***************************************************************************)
(* Characters and text                                                     *)
(***************************************************************************)

\* The characters the model uses, in ascending byte order.
Alphabet ==
    << "+", "-", "/",
       "0", "1", "2", "3", "4", "5", "6", "7", "8", "9",
       "A", "B", "C", "D", "E", "F", "G", "H", "I", "J", "K", "L", "M",
       "N", "O", "P", "Q", "R", "S", "T", "U", "V", "W", "X", "Y", "Z",
       "a", "b", "c", "d", "e", "f", "g", "h", "i", "j", "k", "l", "m",
       "n", "o", "p", "q", "r", "s", "t", "u", "v", "w", "x", "y", "z" >>

DigitChars == <<"0", "1", "2", "3", "4", "5", "6", "7", "8", "9">>

Chars == {Alphabet[k] : k \in 1..Len(Alphabet)}

\* The rank of a character in byte order.
Ord == [c \in Chars |-> CHOOSE k \in 1..Len(Alphabet) : Alphabet[k] = c]

IsDigit(c) == \E k \in 1..10 : DigitChars[k] = c

IsLetter(c) == c \in Chars /\ Ord[c] >= Ord["A"]

DigitVal(c) == (CHOOSE k \in 1..10 : DigitChars[k] = c) - 1

\* strings.Contains
Contains(s, sub) ==
    \E k \in 0..(Len(s) - Len(sub)) : SubSeq(s, k + 1, k + Len(sub)) = sub

\* Byte-wise comparison of two texts: a < b.
StrLess(a, b) ==
    \/ /\ Len(a) < Len(b)
       /\ SubSeq(b, 1, Len(a)) = a
    \/ \E k \in 1..Len(a) :
          /\ k <= Len(b)
          /\ SubSeq(a, 1, k - 1) = SubSeq(b, 1, k - 1)
          /\ Ord[a[k]] < Ord[b[k]]

\* The decimal digits of a natural number, most significant first.
RECURSIVE Digits(_)
Digits(n) ==
    IF n < 10 THEN <<DigitChars[n + 1]>>
    ELSE Append(Digits(n \div 10), DigitChars[(n % 10) + 1])

\* fmt's %0<w>d of a non-negative integer: zero padded to AT LEAST w digits.
ZeroPad(n, w) ==
    LET d == Digits(n)
    IN  IF Len(d) >= w THEN d
        ELSE [k \in 1..(w - Len(d)) |-> "0"] \o d

\* The value of a text of decimal digits: v[k] is the value of its first k
\* digits.
DecValue(s) ==
    LET v[k \in 0..Len(s)] ==
            IF k = 0 THEN 0 ELSE 10 * v[k - 1] + DigitVal(s[k])
    IN  v[Len(s)]

\* The position of the last occurrence of character c in s, 0 when absent.
LastIndex(s, c) ==
    IF \E k \in 1..Len(s) : s[k] = c
    THEN CHOOSE k \in 1..Len(s) :
            s[k] = c /\ \A j \in (k + 1)..Len(s) : s[j] # c
    ELSE 0


(***************************************************************************)
(* Roles, paths and sequence ids                                           *)
(***************************************************************************)

\* The two role tokens (type Mode).
ModeMaster == <<"m", "a", "s", "t", "e", "r">>

ModeWorker == <<"w", "o", "r", "k", "e", "r">>

\* The name of the staging directory under the channel root.
TmpName == <<"t", "m", "p">>

\* A channel root the caller may give to NewFileWatcherChannel (name).
RootPath == <<"/", "c", "h">>

\* The roots the callers of the runs choose from: one whose text has neither
\* "tmp" nor the name of a mode, one under /tmp, and one named after the
\* worker's mode.
RootPaths == {RootPath, <<"/">> \o TmpName \o RootPath, <<"/">> \o ModeWorker}

\* path.Join(dir, name)
PathJoin(dir, name) == dir \o <<"/">> \o name

\* path.Split(filepath): the text after the final slash.
PathBase(filepath) ==
    SubSeq(filepath, LastIndex(filepath, "/") + 1, Len(filepath))

\* startTime: "%04d%02d%02d%02d%02d%02d" of the construction time.
FormatStartTime(t) ==
    ZeroPad(t.year, 4) \o ZeroPad(t.month, 2) \o ZeroPad(t.day, 2)
      \o ZeroPad(t.hour, 2) \o ZeroPad(t.minute, 2) \o ZeroPad(t.second, 2)

\* The width the counter of a sequence id is padded to (%03d).
SeqPadWidth == 3

\* sequenceID := fmt.Sprintf("%v-%s-%03d", ch.mode, ch.startTime, ch.counter)
SequenceID(md, st, ctr) ==
    md \o <<"-">> \o st \o <<"-">> \o ZeroPad(ctr, SeqPadWidth)

\* strconv.ParseInt(s, 10, 64) succeeds: an optional sign, then one or more
\* decimal digits.  (Texts of more than 9 significant digits are outside the
\* model: no counter of the model comes near the 64 bit range.)
ParseIntOk(s) ==
    LET body == IF s # <<>> /\ s[1] \in {"+", "-"} THEN Tail(s) ELSE s
    IN  /\ body # <<>>
        /\ \A k \in 1..Len(body) : IsDigit(body[k])

ParseIntValue(s) ==
    LET neg  == s[1] = "-"
        body == IF s[1] \in {"+", "-"} THEN Tail(s) ELSE s
    IN  IF neg THEN 0 - DecValue(body) ELSE DecValue(body)

\* parseSequenceCounter: the integer after the last "-" of the file name,
\* -1 when it does not parse.
parseSequenceCounter(filepath) ==
    CHOOSE n \in
        {IF ParseIntOk(last) THEN ParseIntValue(last) ELSE -1 :
            last \in {SubSeq(name, LastIndex(name, "-") + 1, Len(name)) :
                        name \in {PathBase(filepath)}}} : TRUE

\* regexp.MatchString("[a-zA-Z]+-[0-9]+-[0-9]+", filename): unanchored, so a
\* letter, a dash, a run of digits, a dash and a digit anywhere in the text.
MatchesSequenceShape(filename) ==
    \E i \in 2..Len(filename) : \E j \in (i + 2)..(Len(filename) - 1) :
        /\ filename[i] = "-"
        /\ filename[j] = "-"
        /\ IsLetter(filename[i - 1])
        /\ \A k \in (i + 1)..(j - 1) : IsDigit(filename[k])
        /\ IsDigit(filename[j + 1])

\* isReadable without the test of the own mode.
isReadableAnyMode(md, filename) ==
    MatchesSequenceShape(filename) /\ ~Contains(filename, TmpName)

\* isReadable of a channel of mode md.
isReadableMode(md, filename) ==
    /\ MatchesSequenceShape(filename)
    /\ ~Contains(filename, md)
    /\ ~Contains(filename, TmpName)

\* ioutil.ReadDir: the entries of a directory sorted by file name.  The
\* k-th entry is the name that has k - 1 names of the directory before it.
SortNames(S) ==
    [k \in 1..Cardinality(S) |->
        CHOOSE a \in S : Cardinality({b \in S : StrLess(b, a)}) = k - 1]

\* The names of a listing that a channel of mode md consumes, in order.
ReadableNames(md, seq) == SelectSeq(seq, LAMBDA name : isReadableMode(md, name))

(***************************************************************************)
(* The bounds of the model                                                 *)
(***************************************************************************)

\* Send calls the threads of one channel make in a run.
MaxSends == 2

\* Failures the environment injects in a run (a read that fails, a write or
\* rename that fails, a watch release that fails or faults).
MaxFaults == 1

\* Send calls made while a root is removed (by Destroy, or by a constructor
\* that failed).
RacingSends == 1

\* The capacity of the output stream, make(chan string,
\* defaultChannelBufferSize), scaled down to the model.
defaultChannelBufferSize == 1

(***************************************************************************)
(* The channels, their threads and the shared directory                    *)
(***************************************************************************)

\* The channels of a run, all on one root: the master's, the worker's, and
\* a second channel of the master role (a sibling of the first, or the master
\* started again).
Inst == {"m", "w", "s"}

\* The mode each channel is constructed with.
ModeOf(i) == IF i = "w" THEN ModeWorker ELSE ModeMaster

\* The threads that call Send on a channel.
SenderIds == {"s1", "s2"}

\* The threads that call Close or Destroy on a channel; each Close that gets
\* that far starts the teardown task of the same name.
CloserIds == {"c1", "c2"}

\* Who runs consume and consumeAll: the watch loop and the callers of Close.
WatchLoop == "wl"

ConsumerIds == {WatchLoop} \cup CloserIds

\* Who runs os.RemoveAll on the root: a constructor that failed, and the
\* callers of Destroy.
Constructor == "ctor"

RemoverIds == {Constructor} \cup CloserIds

\* The construction time of each channel.
ClockOf(i) ==
    [year |-> 2017, month |-> 1, day |-> 2, hour |-> 3, minute |-> 4,
     second |-> IF i = "m" THEN 5 ELSE IF i = "w" THEN 6 ELSE 7]

\* The payload of the k-th Send call of a run (k = 1, 2, ...): k letters, a
\* different letter for each k.
Payload(k) == [j \in 1..k |-> Alphabet[Ord["a"] + k - 1]]

NoText == <<>>

VARIABLES
    \* ch.path: the root the caller gave to NewFileWatcherChannel (name); the
    \* channels of a run are the two ends and the siblings of one root
    path,
    \* the other fields of fileWatcherChannel, per channel
    mode, startTime, counter, recvCounter, closed, mu,
    \* onMessageChan: [buf: payloads queued, closed: close() was called]
    onMessageChan,
    \* the fsnotify watcher: [watching: the root is in its watch list,
    \* closed: Close() took effect], and its notifications in flight (a bag:
    \* two events of one name are two events)
    watcher, events,
    \* the directory: whether the root exists, whether tmp under it exists,
    \* and the content of each file of the root and of tmp
    rootExists, tmpExists, rootFiles, tmpFiles,
    \* Send: where each sender thread is, and its locals
    sendPc, sendLocal,
    \* Close/Destroy: where each caller is, and whether it came by Destroy
    closePc, viaDestroy,
    \* the watch loop and the teardown tasks
    watchPc, tearPc,
    \* consume/consumeAll: per consumer [pc, list, cur, buf]
    cons,
    \* where NewFileWatcherChannel is with a channel: "none" before the call,
    \* "mktmp", "newwatcher", "add" before the step of that name, "removeall"
    \* in the os.RemoveAll of a failure branch, "open" once it returned the
    \* channel, "failed" once it returned an error
    chState,
    \* the process of a channel died of an unrecovered panic
    panicked,
    \* the reader of GetMessage(): "reading", or "eos" at end of stream
    reader,
    \* what is left of the bounds
    callsLeft, faultsLeft,
    \* a call of find_process: its arguments, the output of ps, the result
    proc,
    \* os.RemoveAll(name), per channel and caller: [pc, the names of the root
    \* and of tmp it has read and not removed yet, all the names it has read
    \* in each, the first error of the call and the first error of the call
    \* it makes on tmp]
    removing,
    \* history: the Send calls started, the sends finalized (renamed into the
    \* root), what each channel pushed, and per channel the files it read,
    \* removed, or found pending when Close set closed
    sendCalls, sentLog, recvLog, accessLog

chanVars == <<mode, startTime, counter, recvCounter, closed, mu>>

fsVars == <<rootExists, tmpExists, rootFiles, tmpFiles>>

sendVars == <<sendPc, sendLocal>>

closeVars == <<closePc, viaDestroy>>

histVars == <<sendCalls, sentLog, recvLog, accessLog>>

vars ==
    <<proc, path, removing, mode, startTime, counter, recvCounter, closed, mu,
      onMessageChan, watcher, events, rootExists, tmpExists, rootFiles,
      tmpFiles, sendPc, sendLocal,
      closePc, viaDestroy, watchPc, tearPc, cons, chState, panicked, reader,
      callsLeft, faultsLeft, sendCalls, sentLog, recvLog, accessLog>>

\* ch.tmpPath
tmpPath == PathJoin(path, TmpName)

\* ch.isReadable(filename)
isReadable(i, filename) == isReadableMode(mode[i], filename)

IdleCons == [pc |-> "idle", list |-> <<>>, cur |-> NoText, buf |-> NoText]

IdleSend == [seq |-> NoText, data |-> NoText, fd |-> "none", res |-> "none",
             read |-> -1]

\* The fields of a channel as the constructor sets them.
NewStartTime(i) == FormatStartTime(ClockOf(i))

\* What time.Now() may give the constructor of channel i: the second the
\* runs start from, or a later one.
Clocks(i) == {ClockOf(i), [ClockOf(i) EXCEPT !.second = @ + Cardinality(Inst)]}

\* No os.RemoveAll is under way.
NotRemoving ==
    [pc |-> "none", root |-> {}, rootSeen |-> {}, tmp |-> {}, tmpSeen |-> {},
     err |-> "nil", tmpErr |-> "nil"]

NewStream == [buf |-> <<>>, closed |-> FALSE]

NewWatcher == [watching |-> TRUE, closed |-> FALSE]

\* go ch.watch(): the loop begins with consumeAll.
StartedCons == [IdleCons EXCEPT !.pc = "readdir"]

\* A channel is usable: the constructor returned it and its process lives.
\* No goroutine of the process that owns the channel i has panicked.
NoPanic == "no"

\* The goroutine that panicked closing a stream that is closed already.
TeardownTask == "teardown"

Alive(i) == chState[i] = "open" /\ panicked[i] = NoPanic

(***************************************************************************)
(* find_process                                                            *)
(***************************************************************************)

\* unicode.IsSpace, for the characters of the output of ps.
IsSpace(c) == c \in {" ", "\t", "\n", "\r"}

\* strings.Split(s, sep) for a separator of one character: the pieces between
\* the separators, empty ones included.
Split(s, sep) ==
    LET cuts   == {0, Len(s) + 1} \cup {k \in 1..Len(s) : s[k] = sep}
        Nth(j) == CHOOSE x \in cuts : Cardinality({y \in cuts : y < x}) = j - 1
    IN  [j \in 1..(Cardinality(cuts) - 1) |->
            SubSeq(s, Nth(j) + 1, Nth(j + 1) - 1)]

\* strings.Fields(line): the maximal runs of characters that are not spaces.
Fields(line) ==
    LET starts == {k \in 1..Len(line) :
                     /\ ~IsSpace(line[k])
                     /\ k = 1 \/ IsSpace(line[k - 1])}
        EndOf(k) == CHOOSE e \in k..Len(line) :
                       /\ \A q \in k..e : ~IsSpace(line[q])
                       /\ e = Len(line) \/ IsSpace(line[e + 1])
        Nth(j) == CHOOSE x \in starts :
                     Cardinality({y \in starts : y < x}) = j - 1
    IN  [j \in 1..Cardinality(starts) |-> SubSeq(line, Nth(j), EndOf(Nth(j)))]

\* The results of find_process: (bool, error).
Found == [alive |-> TRUE, err |-> "nil"]

NotFound == [alive |-> FALSE, err |-> "nil"]

Failed(err) == [alive |-> FALSE, err |-> err]

\* A find_process that compares the pid alone.
RowMatchesPid(parts, pid, start) ==
    ParseIntValue(parts[1]) = pid

\* The fields parts of a row of the process table are those of the process
\* pid started at start: pid == int(_pid) && startTime == parts[1].
RowMatches(parts, pid, start) ==
    /\ ParseIntValue(parts[1]) = pid
    /\ parts[2] = start

\* find_process(pid, start) on the result ps of ps(): the lines after
\* the first are taken in order; a line that has not two fields is skipped,
\* a first field that is no integer ends the search with the error, and a
\* line with the pid and the start time ends it with true.
find_process(ps, pid, start) ==
    LET proc_list == Split(ps.output, "\n")
        Ends(i)   == LET parts == Fields(proc_list[i])
                     IN  /\ Len(parts) = 2
                         /\ \/ ~ParseIntOk(parts[1])
                            \/ RowMatches(parts, pid, start)
        ending    == {i \in 2..Len(proc_list) : Ends(i)}
    IN  IF ps.err # "nil" THEN Failed(ps.err)
        ELSE IF ending = {} THEN NotFound
        ELSE LET first == CHOOSE i \in ending : \A j \in ending : i <= j
             IN  IF ParseIntOk(Fields(proc_list[first])[1])
                 THEN Found ELSE Failed("syntax")

\* No call of find_process.
NoProc == [pc |-> "none"]

\* The process calls find_process(pid, startTime) while ps() gives ps.
FindProcess ==
    /\ proc.pc = "call"
    /\ proc' = [proc EXCEPT !.pc = "returned",
                            !.result = find_process(proc.ps, proc.pid,
                                                    proc.startTime)]
    /\ UNCHANGED <<path, removing, chanVars, onMessageChan, watcher, events,
                   fsVars,
                   sendVars, closeVars, watchPc, tearPc, cons, chState, panicked,
                   reader, callsLeft, faultsLeft, histVars>>

\* The channels of opened are constructed, on an empty root: the watch is
\* registered and the watch loop runs; the other channels are not constructed
\* yet.  sends is the number of Send calls each channel may make, faults the
\* number of failures the environment may inject.  ctr and rctr are the
\* counters of the channels, loop where their watch loops are, and sent the
\* sends finalized so far, whose files lie in the root.
InitChannels(opened, sends, faults, ctr, rctr, loop, sent) ==
    /\ chState = [i \in Inst |-> IF i \in opened THEN "open" ELSE "none"]
    /\ mode = [i \in Inst |-> ModeOf(i)]
    /\ startTime = [i \in Inst |-> NewStartTime(i)]
    /\ counter = ctr
    /\ recvCounter = rctr
    /\ closed = [i \in Inst |-> FALSE]
    /\ mu = [i \in Inst |-> 0]
    /\ onMessageChan = [i \in Inst |-> NewStream]
    /\ watcher = [i \in Inst |-> [NewWatcher EXCEPT !.watching = i \in opened]]
    /\ events = [i \in Inst |-> EmptyBag]
    /\ rootExists = TRUE
    /\ tmpExists = TRUE
    /\ rootFiles = [name \in {sent[k].name : k \in 1..Len(sent)} |->
                       (CHOOSE e \in {sent[k] : k \in 1..Len(sent)} :
                            e.name = name).data]
    /\ tmpFiles = <<>>
    /\ sendPc = [i \in Inst |-> [t \in SenderIds |-> "idle"]]
    /\ sendLocal = [i \in Inst |-> [t \in SenderIds |-> IdleSend]]
    /\ closePc = [i \in Inst |-> [c \in CloserIds |-> "idle"]]
    /\ viaDestroy = [i \in Inst |-> [c \in CloserIds |-> FALSE]]
    /\ watchPc = [i \in Inst |-> IF i \in opened THEN loop ELSE "none"]
    /\ tearPc = [i \in Inst |-> [c \in CloserIds |-> "none"]]
    /\ cons = [i \in Inst |-> [c \in ConsumerIds |->
                 IF c = WatchLoop /\ i \in opened /\ loop = "consuming"
                 THEN StartedCons ELSE IdleCons]]
    /\ panicked = [i \in Inst |-> NoPanic]
    /\ reader = [i \in Inst |-> "reading"]
    /\ callsLeft = sends
    /\ faultsLeft = faults
    /\ sendCalls = Len(sent)
    /\ sentLog = sent
    /\ recvLog = [i \in Inst |-> <<>>]
    /\ accessLog = [i \in Inst |-> {}]
    /\ removing = [i \in Inst |-> [r \in RemoverIds |-> NotRemoving]]

\* The channels as above on the root RootPath, and no call of find_process.
InitFrom(opened, sends, faults, ctr, rctr, loop, sent) ==
    /\ InitChannels(opened, sends, faults, ctr, rctr, loop, sent)
    /\ path = RootPath
    /\ proc = NoProc

\* The state after construction: NewFileWatcherChannel succeeded for the
\* channels of opened, the counters are 0 and each watch loop (go ch.watch())
\* is about to drain the directory.
InitWith(opened, sends, faults) ==
    InitFrom(opened, sends, faults, [i \in Inst |-> 0], [i \in Inst |-> 0],
             "consuming", <<>>)

(***************************************************************************)
(* The file system                                                         *)
(***************************************************************************)

\* A directory without the entry name.
Without(dir, name) == [n \in (DOMAIN dir) \ {name} |-> dir[n]]

\* A directory with the entry name holding content (replacing an old one).
With(dir, name, content) == (name :> content) @@ dir

\* A write of data at offset 0 of a file that holds old.
Overlay(data, old) == data \o SubSeq(old, Len(data) + 1, Len(old))

\* The watchers that have the root in their watch list.
Watching ==
    {j \in Inst : watcher[j].watching /\ ~watcher[j].closed /\ panicked[j] = NoPanic}

CreateEvent(name) == [op |-> "CREATE", name |-> PathJoin(path, name)]

\* The environment makes an operation fail, within the bound.
InjectFault == /\ faultsLeft > 0
               /\ faultsLeft' = faultsLeft - 1

\* The kernel queues a notification for each watcher of the root, and those
\* in flight arrive in any order; when the environment fails (the event
\* queue overflows) some watchers get none.
Notify(ev) ==
    \/ /\ events' = [j \in Inst |-> IF j \in Watching
                                     THEN events[j] (+) SetToBag({ev})
                                     ELSE events[j]]
       /\ UNCHANGED faultsLeft
    \/ /\ InjectFault
       /\ \E D \in (SUBSET Watching) \ {Watching} :
             events' = [j \in Inst |-> IF j \in D
                                       THEN events[j] (+) SetToBag({ev})
                                       ELSE events[j]]

\* createIfNotExist(dir): os.Stat(dir) and, when it is not there,
\* os.MkdirAll(dir), which makes the missing parents too.  (One step stands
\* for the two calls: a directory found by Stat is left alone, and MkdirAll
\* leaves the directory there whoever made it.)
createIfNotExist(dir) ==
    /\ rootExists' = TRUE
    /\ tmpExists' = (tmpExists \/ dir = tmpPath)
    /\ UNCHANGED <<rootFiles, tmpFiles>>

\* A directory without the entries of names.
WithoutAll(dir, names) == [n \in (DOMAIN dir) \ names |-> dir[n]]

\* The caller r of channel i is at pc in os.RemoveAll.
InRemoveAll(i, r, pc) ==
    /\ removing[i][r].pc = pc
    /\ panicked[i] = NoPanic

\* os.RemoveAll returns err.  The constructor ignores it and returns its own
\* error in place of a channel; Destroy logs it and returns.
RemoveAllReturn(i, r, err) ==
    /\ removing' = [removing EXCEPT ![i][r] = [NotRemoving EXCEPT !.err = err]]
    /\ IF r = Constructor
       THEN /\ chState' = [chState EXCEPT ![i] = "failed"]
            /\ UNCHANGED closePc
       ELSE /\ closePc' = [closePc EXCEPT ![i][r] = "returned"]
            /\ UNCHANGED chState

\* The entries of the root and of tmp.
RootEntries == (DOMAIN rootFiles) \cup (IF tmpExists THEN {TmpName} ELSE {})

\* The first error of a RemoveAll is the one it returns.
FirstErr(k, err) == IF k.err = "nil" THEN err ELSE k.err

\* The descriptors of the senders after root/name was removed.
FollowRemove(name) ==
    [j \in Inst |-> [u \in SenderIds |->
        IF sendLocal[j][u].seq = name /\ sendLocal[j][u].fd = "root"
        THEN [sendLocal[j][u] EXCEPT !.fd = "gone"]
        ELSE sendLocal[j][u]]]

\* os.RemoveAll(name), the reading: nil when the root is not there; else the
\* entries of the root are read (Lstat, Open, Readdirnames), or the
\* environment fails the reading and the error is returned with nothing
\* removed.
RemoveAllReadDir(i, r) ==
    /\ InRemoveAll(i, r, "readdir")
    /\ \/ /\ ~rootExists
          /\ RemoveAllReturn(i, r, "nil")
          /\ UNCHANGED faultsLeft
       \/ /\ rootExists
          /\ removing' = [removing EXCEPT ![i][r] =
                [NotRemoving EXCEPT !.pc = "unlink", !.root = RootEntries,
                                    !.rootSeen = RootEntries]]
          /\ UNCHANGED <<chState, closePc, faultsLeft>>
       \/ /\ rootExists
          /\ InjectFault
          /\ RemoveAllReturn(i, r, "ioerr")
    /\ UNCHANGED <<proc, path, chanVars, onMessageChan, watcher, events, fsVars,
                   sendVars, viaDestroy, watchPc, tearPc, cons, panicked, reader,
                   callsLeft, histVars>>

\* os.RemoveAll(name): one file of the root that was read is unlinked (a file
\* that is gone already is passed over), or the environment fails the unlink
\* and the file stays.  (The notification of the removal is left out, as in
\* consume.)
RemoveAllUnlink(i, r) ==
    LET k == removing[i][r]
    IN  /\ InRemoveAll(i, r, "unlink")
        /\ \E n \in k.root \ {TmpName} :
              \/ /\ rootFiles' = WithoutAll(rootFiles, {n})
                 /\ sendLocal' = FollowRemove(n)
                 /\ removing' = [removing EXCEPT ![i][r].root = @ \ {n}]
                 /\ UNCHANGED faultsLeft
              \/ /\ n \in DOMAIN rootFiles
                 /\ InjectFault
                 /\ removing' = [removing EXCEPT ![i][r].root = @ \ {n},
                                    ![i][r].err = FirstErr(k, "ioerr")]
                 /\ UNCHANGED <<rootFiles, sendLocal>>
        /\ UNCHANGED <<proc, path, chanVars, onMessageChan, watcher, events, rootExists,
                       tmpExists, tmpFiles, sendPc, closeVars, watchPc, tearPc,
                       cons, chState, panicked, reader, callsLeft, histVars>>

\* os.RemoveAll(name) comes to the entry tmp and goes down into it: its
\* names are read, unless tmp is gone already.
RemoveAllTmp(i, r) ==
    LET k == removing[i][r]
    IN  /\ InRemoveAll(i, r, "unlink")
        /\ TmpName \in k.root
        /\ removing' = [removing EXCEPT ![i][r] =
              IF tmpExists
              THEN [k EXCEPT !.pc = "unlinktmp", !.root = @ \ {TmpName},
                             !.tmp = DOMAIN tmpFiles, !.tmpSeen = DOMAIN tmpFiles]
              ELSE [k EXCEPT !.root = @ \ {TmpName}]]
        /\ UNCHANGED <<proc, path, chanVars, onMessageChan, watcher, events, fsVars,
                       sendVars, closeVars, watchPc, tearPc, cons, chState,
                       panicked, reader, callsLeft, faultsLeft, histVars>>

\* os.RemoveAll(name), inside tmp: one file that was read is unlinked (a
\* descriptor open on it is left without a name), or the environment fails
\* the unlink, and the call on tmp keeps its first error.
RemoveAllUnlinkTmp(i, r) ==
    LET k == removing[i][r]
    IN  /\ InRemoveAll(i, r, "unlinktmp")
        /\ \E n \in k.tmp :
              \/ /\ tmpFiles' = WithoutAll(tmpFiles, {n})
                 /\ sendLocal' = [j \in Inst |-> [u \in SenderIds |->
                       IF sendLocal[j][u].seq = n /\ sendLocal[j][u].fd = "tmp"
                       THEN [sendLocal[j][u] EXCEPT !.fd = "gone"]
                       ELSE sendLocal[j][u]]]
                 /\ removing' = [removing EXCEPT ![i][r].tmp = @ \ {n}]
                 /\ UNCHANGED faultsLeft
              \/ /\ n \in DOMAIN tmpFiles
                 /\ InjectFault
                 /\ removing' = [removing EXCEPT ![i][r].tmp = @ \ {n},
                       ![i][r].tmpErr = IF @ = "nil" THEN "ioerr" ELSE @]
                 /\ UNCHANGED <<tmpFiles, sendLocal>>
        /\ UNCHANGED <<proc, path, chanVars, onMessageChan, watcher, events, rootExists,
                       tmpExists, rootFiles, sendPc, closeVars, watchPc, tearPc,
                       cons, chState, panicked, reader, callsLeft, histVars>>

\* os.RemoveAll(name), inside tmp with the names read all done: the next
\* Readdirnames returns files that came meanwhile (it may, or may not), or
\* it returns none and rmdir is called on tmp.  If tmp is empty (or gone)
\* the call on tmp returns nil, whatever its unlinks returned; if it is not,
\* tmp stays and the call returns its first error, that of an unlink or else
\* that of the rmdir, which the call on the root keeps if it has none yet.
\* RemoveAll goes on in the root.
RemoveAllRmdirTmp(i, r) ==
    LET k == removing[i][r]
    IN  /\ InRemoveAll(i, r, "unlinktmp")
        /\ k.tmp = {}
        /\ \/ /\ \E S \in (SUBSET ((DOMAIN tmpFiles) \ k.tmpSeen)) \ {{}} :
                    removing' = [removing EXCEPT ![i][r].tmp = S,
                                    ![i][r].tmpSeen = @ \cup S]
              /\ UNCHANGED tmpExists
           \/ /\ tmpExists' = (tmpExists /\ tmpFiles # <<>>)
              /\ removing' = [removing EXCEPT ![i][r].pc = "unlink",
                    ![i][r].tmpSeen = {},
                    ![i][r].tmpErr = "nil",
                    ![i][r].err =
                        IF tmpExists /\ tmpFiles # <<>>
                        THEN FirstErr(k, IF k.tmpErr = "nil" THEN "notempty"
                                         ELSE k.tmpErr)
                        ELSE k.err]
        /\ UNCHANGED <<proc, path, chanVars, onMessageChan, watcher, events, rootExists,
                       rootFiles, tmpFiles, sendVars, closeVars, watchPc, tearPc,
                       cons, chState, panicked, reader, callsLeft, faultsLeft,
                       histVars>>

\* os.RemoveAll(name), with the entries read all done: the next Readdirnames
\* returns entries that came meanwhile (it may, or may not), or it returns
\* none and the root is removed if it is empty: nil is returned, with the
\* root go the watches on it, and their watchers are notified.  If the root
\* is not empty it stays, and the first error is returned.
RemoveAllRmdir(i, r) ==
    LET k == removing[i][r]
    IN  /\ InRemoveAll(i, r, "unlink")
        /\ k.root = {}
        /\ \/ /\ \E S \in (SUBSET (RootEntries \ k.rootSeen)) \ {{}} :
                    removing' = [removing EXCEPT ![i][r].root = S,
                                    ![i][r].rootSeen = @ \cup S]
              /\ UNCHANGED <<rootExists, watcher, events, chState, closePc>>
           \/ /\ rootExists' = (rootExists /\ RootEntries # {})
              /\ IF rootExists /\ ~rootExists'
                 THEN /\ watcher' = [j \in Inst |->
                                        [watcher[j] EXCEPT !.watching = FALSE]]
                      /\ \E D \in SUBSET Watching :
                            events' = [j \in Inst |->
                               IF j \in D
                               THEN events[j] (+) SetToBag({[op |-> "REMOVE",
                                                             name |-> path]})
                               ELSE events[j]]
                 ELSE UNCHANGED <<watcher, events>>
              /\ RemoveAllReturn(i, r, IF ~rootExists' THEN "nil"
                                       ELSE FirstErr(k, "notempty"))
        /\ UNCHANGED <<proc, path, chanVars, onMessageChan, tmpExists, rootFiles,
                       tmpFiles, sendVars, viaDestroy, watchPc, tearPc, cons,
                       panicked, reader, callsLeft, faultsLeft, histVars>>

(***************************************************************************)
(* NewFileWatcherChannel                                                   *)
(***************************************************************************)

\* The failure branch of the constructor: the error is logged and
\* os.RemoveAll(name) begins.
ConstructorFails(i) ==
    /\ chState' = [chState EXCEPT ![i] = "removeall"]
    /\ removing' = [removing EXCEPT ![i][Constructor] =
                       [NotRemoving EXCEPT !.pc = "readdir"]]

\* The constructor is called for a channel not constructed yet:
\* curTime := time.Now() (kept here as the start time it will be formatted
\* into) and createIfNotExist(name), which the environment may fail.
NewFileWatcherChannelBegin(i) ==
    /\ chState[i] = "none"
    /\ \E now \in Clocks(i) :
          startTime' = [startTime EXCEPT ![i] = FormatStartTime(now)]
    /\ \/ /\ createIfNotExist(path)
          /\ chState' = [chState EXCEPT ![i] = "mktmp"]
          /\ UNCHANGED <<removing, faultsLeft>>
       \/ /\ InjectFault
          /\ ConstructorFails(i)
          /\ UNCHANGED fsVars
    /\ UNCHANGED <<proc, path, mode, counter, recvCounter, closed, mu, onMessageChan,
                   watcher, events, sendVars, closeVars, watchPc, tearPc, cons,
                   panicked, reader, callsLeft, histVars>>

\* createIfNotExist(tmpPath)
NewFileWatcherChannelTmp(i) ==
    /\ chState[i] = "mktmp"
    /\ \/ /\ createIfNotExist(tmpPath)
          /\ chState' = [chState EXCEPT ![i] = "newwatcher"]
          /\ UNCHANGED <<removing, faultsLeft>>
       \/ /\ InjectFault
          /\ ConstructorFails(i)
          /\ UNCHANGED fsVars
    /\ UNCHANGED <<proc, path, chanVars, onMessageChan, watcher, events, sendVars,
                   closeVars, watchPc, tearPc, cons, panicked, reader, callsLeft,
                   histVars>>

\* make(chan string, defaultChannelBufferSize) and fsnotify.NewWatcher(): a
\* watcher that watches nothing yet.
NewFileWatcherChannelWatcher(i) ==
    /\ chState[i] = "newwatcher"
    /\ \/ /\ watcher' = [watcher EXCEPT ![i] =
                            [NewWatcher EXCEPT !.watching = FALSE]]
          /\ onMessageChan' = [onMessageChan EXCEPT ![i] = NewStream]
          /\ chState' = [chState EXCEPT ![i] = "add"]
          /\ UNCHANGED <<removing, faultsLeft>>
       \/ /\ InjectFault
          /\ ConstructorFails(i)
          /\ UNCHANGED <<watcher, onMessageChan>>
    /\ UNCHANGED <<proc, path, chanVars, events, fsVars, sendVars, closeVars, watchPc,
                   tearPc, cons, panicked, reader, callsLeft, histVars>>

\* watcher.Add(name), which fails when the root is not there (any more) or
\* when the environment fails it.  When it succeeds the channel is built
\* with counter 0, recvCounter 0 and the start time of the call,
\* go ch.watch() starts the watch loop, and the channel is returned.
NewFileWatcherChannelAdd(i) ==
    /\ chState[i] = "add"
    /\ \/ /\ rootExists
          /\ watcher' = [watcher EXCEPT ![i].watching = TRUE]
          /\ counter' = [counter EXCEPT ![i] = 0]
          /\ recvCounter' = [recvCounter EXCEPT ![i] = 0]
          /\ closed' = [closed EXCEPT ![i] = FALSE]
          /\ mu' = [mu EXCEPT ![i] = 0]
          /\ chState' = [chState EXCEPT ![i] = "open"]
          /\ watchPc' = [watchPc EXCEPT ![i] = "consuming"]
          /\ cons' = [cons EXCEPT ![i][WatchLoop] = StartedCons]
          /\ UNCHANGED <<removing, faultsLeft>>
       \/ /\ ~rootExists
          /\ ConstructorFails(i)
          /\ UNCHANGED <<watcher, counter, recvCounter, closed, mu, watchPc,
                         cons, faultsLeft>>
       \/ /\ rootExists
          /\ InjectFault
          /\ ConstructorFails(i)
          /\ UNCHANGED <<watcher, counter, recvCounter, closed, mu, watchPc,
                         cons>>
    /\ UNCHANGED <<proc, path, mode, startTime, onMessageChan, events, fsVars,
                   sendVars, closeVars, tearPc, panicked, reader, callsLeft,
                   histVars>>

(***************************************************************************)
(* Send                                                                    *)
(***************************************************************************)

\* A Send call returns: the deferred RUnlock, the locals dropped.
SendReturn(i, t, result) ==
    /\ sendPc' = [sendPc EXCEPT ![i][t] = "idle"]
    /\ sendLocal' = [sendLocal EXCEPT ![i][t] = [IdleSend EXCEPT !.res = result]]
    /\ mu' = [mu EXCEPT ![i] = @ - 1]

\* if ch.closed { return errors.New("channel already closed") }; RLock; the
\* sequence id and the two paths from ch.counter.
SendBegin(i, t) ==
    /\ Alive(i)
    /\ sendPc[i][t] = "idle"
    /\ callsLeft[i] > 0
    /\ callsLeft' = [callsLeft EXCEPT ![i] = @ - 1]
    /\ IF closed[i]
       THEN /\ sendLocal' = [sendLocal EXCEPT ![i][t] =
                                [IdleSend EXCEPT !.res = "closed"]]
            /\ UNCHANGED <<sendPc, mu, sendCalls>>
       ELSE /\ mu' = [mu EXCEPT ![i] = @ + 1]
            /\ sendCalls' = sendCalls + 1
            /\ sendLocal' = [sendLocal EXCEPT ![i][t] =
                 [IdleSend EXCEPT
                    !.seq = SequenceID(mode[i], startTime[i], counter[i]),
                    !.data = Payload(sendCalls + 1)]]
            /\ sendPc' = [sendPc EXCEPT ![i][t] = "open"]
    /\ UNCHANGED <<proc, path, removing, mode, startTime, counter, recvCounter, closed,
                   onMessageChan, watcher, events, fsVars, closeVars, watchPc,
                   tearPc, cons, chState, panicked, reader, faultsLeft, sentLog,
                   recvLog, accessLog>>

\* ioutil.WriteFile, first half: OpenFile(tmp_filepath, O_WRONLY|O_CREATE|
\* O_TRUNC).  It fails when tmp is gone, or when the environment fails it.
SendOpen(i, t) ==
    /\ Alive(i)
    /\ sendPc[i][t] = "open"
    /\ \/ /\ tmpExists
          /\ tmpFiles' = With(tmpFiles, sendLocal[i][t].seq, <<>>)
          /\ sendLocal' = [sendLocal EXCEPT ![i][t].fd = "tmp"]
          /\ sendPc' = [sendPc EXCEPT ![i][t] = "write"]
          /\ UNCHANGED <<mu, faultsLeft>>
       \/ /\ ~tmpExists
          /\ SendReturn(i, t, "ioerr")
          /\ UNCHANGED <<tmpFiles, faultsLeft>>
       \/ /\ tmpExists
          /\ InjectFault
          /\ SendReturn(i, t, "ioerr")
          /\ UNCHANGED tmpFiles
    /\ UNCHANGED <<proc, path, removing, mode, startTime, counter, recvCounter, closed,
                   onMessageChan, watcher, events, rootExists, tmpExists, rootFiles,
                   closeVars, watchPc, tearPc, cons, chState, panicked, reader,
                   callsLeft, histVars>>

\* The file the descriptor of a sender is open on, after n bytes of its data
\* were written at offset 0: in tmp, in the root once another thread renamed
\* it there, or nowhere once it was removed.
WriteThrough(i, t, n) ==
    LET l    == sendLocal[i][t]
        part == SubSeq(l.data, 1, n)
    IN  /\ tmpFiles' = IF l.fd = "tmp"
                       THEN With(tmpFiles, l.seq, Overlay(part, tmpFiles[l.seq]))
                       ELSE tmpFiles
        /\ rootFiles' = IF l.fd = "root"
                        THEN With(rootFiles, l.seq, Overlay(part, rootFiles[l.seq]))
                        ELSE rootFiles

\* ioutil.WriteFile, second half: f.Write(data) and f.Close().  A write that
\* fails has written a strict prefix of the payload.
SendWrite(i, t) ==
    /\ Alive(i)
    /\ sendPc[i][t] = "write"
    /\ \/ /\ WriteThrough(i, t, Len(sendLocal[i][t].data))
          /\ sendLocal' = [sendLocal EXCEPT ![i][t].fd = "none"]
          /\ sendPc' = [sendPc EXCEPT ![i][t] = "rename"]
          /\ UNCHANGED <<mu, faultsLeft>>
       \/ /\ InjectFault
          /\ \E n \in 0..(Len(sendLocal[i][t].data) - 1) : WriteThrough(i, t, n)
          /\ SendReturn(i, t, "ioerr")
    /\ UNCHANGED <<proc, path, removing, mode, startTime, counter, recvCounter, closed,
                   onMessageChan, watcher, events, rootExists, tmpExists, closeVars,
                   watchPc, tearPc, cons, chState, panicked, reader, callsLeft,
                   histVars>>

\* The descriptors of the other senders after tmp/name was renamed to
\* root/name: one open on the file follows it into the root.
FollowRename(i, t, name) ==
    [j \in Inst |-> [u \in SenderIds |->
        IF <<j, u>> = <<i, t>> THEN sendLocal[j][u]
        ELSE IF sendLocal[j][u].seq = name /\ sendLocal[j][u].fd = "tmp"
             THEN [sendLocal[j][u] EXCEPT !.fd = "root"]
        ELSE IF sendLocal[j][u].seq = name /\ sendLocal[j][u].fd = "root"
             THEN [sendLocal[j][u] EXCEPT !.fd = "gone"]
        ELSE sendLocal[j][u]]]

\* os.Rename(tmp_filepath, filepath): the file appears in the root whole, and
\* the watchers of the root are notified.  It fails when the staging file is
\* not there (any more), or when the environment fails it.
SendRename(i, t) ==
    LET name == sendLocal[i][t].seq
    IN  /\ Alive(i)
        /\ sendPc[i][t] = "rename"
        /\ \/ /\ rootExists
              /\ name \in DOMAIN tmpFiles
              /\ rootFiles' = With(rootFiles, name, tmpFiles[name])
              /\ tmpFiles' = Without(tmpFiles, name)
              /\ Notify(CreateEvent(name))
              /\ sentLog' = Append(sentLog,
                     [inst |-> i, name |-> name, data |-> sendLocal[i][t].data])
              /\ sendLocal' = FollowRename(i, t, name)
              /\ sendPc' = [sendPc EXCEPT ![i][t] = "incr"]
              /\ UNCHANGED mu
           \/ /\ ~(rootExists /\ name \in DOMAIN tmpFiles)
              /\ SendReturn(i, t, "ioerr")
              /\ UNCHANGED <<rootFiles, tmpFiles, events, sentLog, faultsLeft>>
           \/ /\ rootExists
              /\ name \in DOMAIN tmpFiles
              /\ InjectFault
              /\ SendReturn(i, t, "ioerr")
              /\ UNCHANGED <<rootFiles, tmpFiles, events, sentLog>>
        /\ UNCHANGED <<proc, path, removing, mode, startTime, counter, recvCounter, closed,
                       onMessageChan, watcher, rootExists, tmpExists, closeVars, watchPc,
                       tearPc, cons, chState, panicked, reader, callsLeft, sendCalls,
                       recvLog, accessLog>>

\* ch.counter++, the read: the counter is not protected from the other
\* senders (they all hold the read lock), so the increment is a read and a
\* later write.
SendIncrRead(i, t) ==
    /\ Alive(i)
    /\ sendPc[i][t] = "incr"
    /\ sendLocal' = [sendLocal EXCEPT ![i][t].read = counter[i]]
    /\ sendPc' = [sendPc EXCEPT ![i][t] = "incrw"]
    /\ UNCHANGED <<proc, path, removing, chanVars, onMessageChan, watcher, events, fsVars,
                   closeVars, watchPc, tearPc, cons, chState, panicked, reader,
                   callsLeft, faultsLeft, histVars>>

\* ch.counter++, the write, and return nil.
SendIncrWrite(i, t) ==
    /\ Alive(i)
    /\ sendPc[i][t] = "incrw"
    /\ counter' = [counter EXCEPT ![i] = sendLocal[i][t].read + 1]
    /\ SendReturn(i, t, "ok")
    /\ UNCHANGED <<proc, path, removing, mode, startTime, recvCounter, closed, onMessageChan,
                   watcher, events, fsVars, closeVars, watchPc, tearPc, cons,
                   chState, panicked, reader, callsLeft, faultsLeft, histVars>>


(***************************************************************************)
(* consume and consumeAll, run by the watch loop and by Close              *)
(***************************************************************************)

\* The consumer goes on to the next name of its listing; with none left,
\* consumeAll (or the single consume of the watch loop) returns.
ConsAfter(rest) ==
    IF rest = <<>> THEN IdleCons
    ELSE [pc |-> "read", list |-> Tail(rest),
          cur |-> PathJoin(path, Head(rest)), buf |-> NoText]

\* The consumer state nc is installed; when it is idle the caller resumes:
\* the watch loop at its select, Close at the start of the teardown task.
Resume(i, c, nc) ==
    /\ cons' = [cons EXCEPT ![i][c] = nc]
    /\ watchPc' = IF nc.pc = "idle" /\ c = WatchLoop
                  THEN [watchPc EXCEPT ![i] = "select"] ELSE watchPc
    /\ closePc' = IF nc.pc = "idle" /\ c # WatchLoop
                  THEN [closePc EXCEPT ![i][c] = "spawn"] ELSE closePc

\* consumeAll: ioutil.ReadDir(ch.path), sorted by name (nil when the root is
\* gone), and the names isReadable lets through; consume begins on the first.
ConsumeAllList(i, c) ==
    /\ Alive(i)
    /\ cons[i][c].pc = "readdir"
    /\ LET listing == IF rootExists
                      THEN SortNames((DOMAIN rootFiles) \cup
                                     (IF tmpExists THEN {TmpName} ELSE {}))
                      ELSE <<>>
       IN  Resume(i, c, ConsAfter(ReadableNames(mode[i], listing)))
    /\ UNCHANGED <<proc, path, removing, chanVars, onMessageChan, watcher, events, fsVars, sendVars,
                   viaDestroy, tearPc, chState, panicked, reader, callsLeft,
                   faultsLeft, histVars>>

\* A consume that goes on after a failed read as if it had read nothing.
ReadFailureIgnored(i, c) ==
    /\ cons' = [cons EXCEPT ![i][c].pc = "remove"]
    /\ UNCHANGED <<watchPc, closePc>>

\* consume: if err != nil { log; return }, and the caller goes on: consumeAll
\* with the next file of its listing.
ReadFailed(i, c) == Resume(i, c, ConsAfter(cons[i][c].list))

\* consume: ioutil.ReadFile(filepath).  When it fails (the file is gone, or
\* the other end holds it) the file is logged and skipped.
ConsumeRead(i, c) ==
    LET k    == cons[i][c]
        name == PathBase(k.cur)
    IN  /\ Alive(i)
        /\ k.pc = "read"
        /\ \/ /\ rootExists
              /\ name \in DOMAIN rootFiles
              /\ cons' = [cons EXCEPT ![i][c].buf = rootFiles[name],
                                      ![i][c].pc = "remove"]
              /\ accessLog' = [accessLog EXCEPT ![i] =
                                  @ \cup {[op |-> "read", name |-> name]}]
              /\ UNCHANGED <<watchPc, closePc, faultsLeft>>
           \/ /\ ~(rootExists /\ name \in DOMAIN rootFiles)
              /\ ReadFailed(i, c)
              /\ UNCHANGED <<accessLog, faultsLeft>>
           \/ /\ rootExists
              /\ name \in DOMAIN rootFiles
              /\ InjectFault
              /\ ReadFailed(i, c)
              /\ UNCHANGED accessLog
        /\ UNCHANGED <<proc, path, removing, chanVars, onMessageChan, watcher, events, fsVars,
                       sendVars, viaDestroy, tearPc, chState, panicked, reader,
                       callsLeft, sendCalls, sentLog, recvLog>>

\* consume: os.Remove(filepath), its error ignored.  (The notification of the
\* removal is left out: the watch loop does nothing on an event that is not a
\* creation, so a run with it differs from the run that dropped it only in
\* the content of the event queue.)
ConsumeRemove(i, c) ==
    LET k    == cons[i][c]
        name == PathBase(k.cur)
    IN  /\ Alive(i)
        /\ k.pc = "remove"
        /\ IF rootExists /\ name \in DOMAIN rootFiles
           THEN /\ rootFiles' = Without(rootFiles, name)
                /\ sendLocal' = FollowRemove(name)
                /\ accessLog' = [accessLog EXCEPT ![i] =
                                    @ \cup {[op |-> "remove", name |-> name]}]
           ELSE UNCHANGED <<rootFiles, sendLocal, accessLog>>
        /\ cons' = [cons EXCEPT ![i][c].pc = "setctr"]
        /\ UNCHANGED <<proc, path, removing, chanVars, onMessageChan, watcher, events, rootExists,
                       tmpExists, tmpFiles,
                       sendPc, closeVars, watchPc, tearPc, chState, panicked, reader,
                       callsLeft, faultsLeft, sendCalls, sentLog, recvLog>>

\* consume: ch.recvCounter = parseSequenceCounter(filepath) + 1
ConsumeSetCounter(i, c) ==
    /\ Alive(i)
    /\ cons[i][c].pc = "setctr"
    /\ recvCounter' = [recvCounter EXCEPT ![i] =
                          parseSequenceCounter(cons[i][c].cur) + 1]
    /\ cons' = [cons EXCEPT ![i][c].pc = "push"]
    /\ UNCHANGED <<proc, path, removing, mode, startTime, counter, closed, mu, onMessageChan,
                   watcher, events, fsVars, sendVars, closeVars, watchPc,
                   tearPc, chState, panicked, reader, callsLeft, faultsLeft, histVars>>

\* consume: ch.onMessageChan <- string(buf).  The send waits while the buffer
\* is full, and panics when the channel was closed.
ConsumePush(i, c) ==
    LET k == cons[i][c]
    IN  /\ Alive(i)
        /\ k.pc = "push"
        /\ IF onMessageChan[i].closed
           THEN /\ panicked' = [panicked EXCEPT ![i] = c]
                /\ UNCHANGED <<onMessageChan, recvLog, cons, watchPc, closePc>>
           ELSE /\ Len(onMessageChan[i].buf) < defaultChannelBufferSize
                /\ onMessageChan' = [onMessageChan EXCEPT ![i].buf =
                                        Append(@, k.buf)]
                /\ recvLog' = [recvLog EXCEPT ![i] =
                       Append(@, [name |-> PathBase(k.cur), data |-> k.buf])]
                /\ Resume(i, c, ConsAfter(k.list))
                /\ UNCHANGED panicked
        /\ UNCHANGED <<proc, path, removing, chanVars, chState, watcher, events, fsVars, sendVars,
                       viaDestroy, tearPc, reader, callsLeft, faultsLeft,
                       sendCalls, sentLog, accessLog>>

(***************************************************************************)
(* The watch loop                                                          *)
(***************************************************************************)

\* case event, ok := <-ch.watcher.Events, with ok: a creation event of a
\* readable name is consumed alone when its counter is the expected one, and
\* starts consumeAll otherwise; any other event is only logged.
WatchEvent(i) ==
    /\ Alive(i)
    /\ watchPc[i] = "select"
    /\ ~watcher[i].closed
    /\ \E ev \in BagToSet(events[i]) :
          /\ events' = [events EXCEPT ![i] = @ (-) SetToBag({ev})]
          /\ IF ev.op = "CREATE" /\ isReadable(i, ev.name)
             THEN /\ watchPc' = [watchPc EXCEPT ![i] = "consuming"]
                  /\ cons' = [cons EXCEPT ![i][WatchLoop] =
                        IF parseSequenceCounter(ev.name) = recvCounter[i]
                        THEN [pc |-> "read", list |-> <<>>, cur |-> ev.name,
                              buf |-> NoText]
                        ELSE [IdleCons EXCEPT !.pc = "readdir"]]
             ELSE UNCHANGED <<watchPc, cons>>
    /\ UNCHANGED <<proc, path, removing, chanVars, onMessageChan, watcher, fsVars, sendVars,
                   closeVars, tearPc, chState, panicked, reader, callsLeft, faultsLeft,
                   histVars>>

\* case event, ok := <-ch.watcher.Events, with !ok: the watcher was closed,
\* and the loop returns.
WatchExit(i) ==
    /\ Alive(i)
    /\ watchPc[i] = "select"
    /\ watcher[i].closed
    /\ watchPc' = [watchPc EXCEPT ![i] = "done"]
    /\ UNCHANGED <<proc, path, removing, chanVars, onMessageChan, watcher, events, fsVars, sendVars,
                   closeVars, tearPc, cons, chState, panicked, reader, callsLeft,
                   faultsLeft, histVars>>

\* case err := <-ch.watcher.Errors: the error is logged (a nil one, read from
\* the closed channel, is not) and the loop goes round.
WatchError(i) ==
    /\ Alive(i)
    /\ watchPc[i] = "select"
    /\ UNCHANGED vars


(***************************************************************************)
(* Close, Destroy and the teardown task                                    *)
(***************************************************************************)

\* Close returns to Destroy, or to the caller.
AfterClose(i, c) == IF viaDestroy[i][c] THEN "destroy" ELSE "returned"

\* A thread calls Close() (d = FALSE) or Destroy() (d = TRUE):
\* if ch.closed { return }
CloseBegin(i, c, d) ==
    /\ Alive(i)
    /\ closePc[i][c] = "idle"
    /\ viaDestroy' = [viaDestroy EXCEPT ![i][c] = d]
    /\ closePc' = [closePc EXCEPT ![i][c] =
                      IF closed[i] THEN (IF d THEN "destroy" ELSE "returned")
                      ELSE "set"]
    /\ UNCHANGED <<proc, path, removing, chanVars, onMessageChan, watcher, events, fsVars, sendVars,
                   watchPc, tearPc, cons, chState, panicked, reader, callsLeft,
                   faultsLeft, histVars>>

\* The files of the root that the channel can read, noted in the access log
\* as pending at the moment Close sets closed.
PendingAtClose(i) ==
    {[op |-> "pending", name |-> name] :
        name \in {n \in DOMAIN rootFiles : isReadable(i, n)}}

\* ch.closed = true, and Close enters consumeAll.
CloseSet(i, c) ==
    /\ Alive(i)
    /\ closePc[i][c] = "set"
    /\ closed' = [closed EXCEPT ![i] = TRUE]
    /\ closePc' = [closePc EXCEPT ![i][c] = "consuming"]
    /\ cons' = [cons EXCEPT ![i][c] = [IdleCons EXCEPT !.pc = "readdir"]]
    /\ accessLog' = [accessLog EXCEPT ![i] = @ \cup PendingAtClose(i)]
    /\ UNCHANGED <<proc, path, removing, mode, startTime, counter, recvCounter, mu, onMessageChan,
                   watcher, events, fsVars, sendVars, viaDestroy, watchPc,
                   tearPc, chState, panicked, reader, callsLeft, faultsLeft,
                   sendCalls, sentLog, recvLog>>

\* go func() { ... }() and return: the teardown task starts.
CloseSpawn(i, c) ==
    /\ Alive(i)
    /\ closePc[i][c] = "spawn"
    /\ tearPc' = [tearPc EXCEPT ![i][c] = "remove"]
    /\ closePc' = [closePc EXCEPT ![i][c] = AfterClose(i, c)]
    /\ UNCHANGED <<proc, path, removing, chanVars, onMessageChan, watcher, events, fsVars, sendVars,
                   viaDestroy, watchPc, cons, chState, panicked, reader, callsLeft,
                   faultsLeft, histVars>>

\* Destroy after Close: if ch.mode == ModeMaster, os.RemoveAll(ch.path)
\* begins; a worker's Destroy returns.
DestroyRemoveAll(i, c) ==
    /\ Alive(i)
    /\ closePc[i][c] = "destroy"
    /\ IF mode[i] = ModeMaster
       THEN /\ closePc' = [closePc EXCEPT ![i][c] = "removeall"]
            /\ removing' = [removing EXCEPT ![i][c] =
                               [NotRemoving EXCEPT !.pc = "readdir"]]
       ELSE /\ closePc' = [closePc EXCEPT ![i][c] = "returned"]
            /\ UNCHANGED removing
    /\ UNCHANGED <<proc, path, chanVars, onMessageChan, watcher, events, fsVars,
                   sendVars, viaDestroy, watchPc, tearPc, cons, chState, panicked,
                   reader, callsLeft, faultsLeft, histVars>>

\* The teardown task: ch.watcher.Remove(ch.path).  It takes the root off the
\* watch list, or returns an error (ignored), or faults.
TearRemove(i, c) ==
    /\ Alive(i)
    /\ tearPc[i][c] = "remove"
    /\ \/ /\ watcher' = [watcher EXCEPT ![i].watching = FALSE]
          /\ tearPc' = [tearPc EXCEPT ![i][c] = "close"]
          /\ UNCHANGED faultsLeft
       \/ /\ InjectFault
          /\ \E next \in {"close", "deferred"} :
                tearPc' = [tearPc EXCEPT ![i][c] = next]
          /\ UNCHANGED watcher
    /\ UNCHANGED <<proc, path, removing, chanVars, onMessageChan, events, fsVars, sendVars,
                   closeVars, watchPc, cons, chState, panicked, reader, callsLeft,
                   histVars>>

\* The teardown task: ch.watcher.Close().  The Events channel is closed and
\* the notifications in flight are lost; or the call faults.
TearClose(i, c) ==
    /\ Alive(i)
    /\ tearPc[i][c] = "close"
    /\ tearPc' = [tearPc EXCEPT ![i][c] = "deferred"]
    /\ \/ /\ watcher' = [watcher EXCEPT ![i] =
                            [watching |-> FALSE, closed |-> TRUE]]
          /\ events' = [events EXCEPT ![i] = EmptyBag]
          /\ UNCHANGED faultsLeft
       \/ /\ InjectFault
          /\ UNCHANGED <<watcher, events>>
    /\ UNCHANGED <<proc, path, removing, chanVars, onMessageChan, fsVars, sendVars, closeVars,
                   watchPc, cons, chState, panicked, reader, callsLeft, histVars>>

\* The deferred function of the teardown task: recover() takes up a fault of
\* the release, then close(ch.onMessageChan), which panics on a channel that
\* is closed already.
TearDeferred(i, c) ==
    /\ Alive(i)
    /\ tearPc[i][c] = "deferred"
    /\ tearPc' = [tearPc EXCEPT ![i][c] = "done"]
    /\ IF onMessageChan[i].closed
       THEN /\ panicked' = [panicked EXCEPT ![i] = TeardownTask]
            /\ UNCHANGED onMessageChan
       ELSE /\ onMessageChan' = [onMessageChan EXCEPT ![i].closed = TRUE]
            /\ UNCHANGED panicked
    /\ UNCHANGED <<proc, path, removing, chanVars, chState, watcher, events, fsVars, sendVars,
                   closeVars, watchPc, cons, reader, callsLeft, faultsLeft,
                   histVars>>

(***************************************************************************)
(* The reader of GetMessage()                                              *)
(***************************************************************************)

\* The owner of the channel receives the next payload of the stream.
ReaderRecv(i) ==
    /\ Alive(i)
    /\ reader[i] = "reading"
    /\ onMessageChan[i].buf # <<>>
    /\ onMessageChan' = [onMessageChan EXCEPT ![i].buf = Tail(@)]
    /\ UNCHANGED <<proc, path, removing, chanVars, watcher, events, fsVars, sendVars, closeVars,
                   watchPc, tearPc, cons, chState, panicked, reader, callsLeft,
                   faultsLeft, histVars>>

\* The stream is closed and drained: the reader sees the end of the stream.
ReaderEos(i) ==
    /\ Alive(i)
    /\ reader[i] = "reading"
    /\ onMessageChan[i].buf = <<>>
    /\ onMessageChan[i].closed
    /\ reader' = [reader EXCEPT ![i] = "eos"]
    /\ UNCHANGED <<proc, path, removing, chanVars, onMessageChan, watcher, events, fsVars, sendVars,
                   closeVars, watchPc, tearPc, cons, chState, panicked, callsLeft,
                   faultsLeft, histVars>>

(***************************************************************************)
(* Specifications                                                          *)
(***************************************************************************)

\* The steps of the senders SN[i] of each channel i.
SendNext(SN) ==
    \E i \in Inst : \E t \in SN[i] :
        \/ SendBegin(i, t)
        \/ SendOpen(i, t)
        \/ SendWrite(i, t)
        \/ SendRename(i, t)
        \/ SendIncrRead(i, t)
        \/ SendIncrWrite(i, t)

\* The steps of consume and consumeAll, in the watch loops and in the Close
\* calls of the callers CL[i].
ConsumeNext(CL) ==
    \E i \in Inst : \E c \in {WatchLoop} \cup CL[i] :
        \/ ConsumeAllList(i, c)
        \/ ConsumeRead(i, c)
        \/ ConsumeRemove(i, c)
        \/ ConsumeSetCounter(i, c)
        \/ ConsumePush(i, c)

WatchNext == \E i \in Inst : WatchEvent(i) \/ WatchError(i)

WatchErrorNext == \E i \in Inst : WatchError(i)

WatchExitNext == \E i \in Inst : WatchExit(i)

\* Close, called directly (DS = {FALSE}) or also through Destroy, and the
\* teardown tasks it starts.
CloseNext(CL, DS) ==
    \E i \in Inst : \E c \in CL[i] :
        \/ \E d \in DS : CloseBegin(i, c, d)
        \/ CloseSet(i, c)
        \/ CloseSpawn(i, c)
        \/ TearRemove(i, c)
        \/ TearClose(i, c)
        \/ TearDeferred(i, c)

DestroyNext(CL) == \E i \in Inst : \E c \in CL[i] : DestroyRemoveAll(i, c)

\* The steps of the constructors of the channels of I.
OpenNext(I) ==
    \E i \in I :
        \/ NewFileWatcherChannelBegin(i)
        \/ NewFileWatcherChannelTmp(i)
        \/ NewFileWatcherChannelWatcher(i)
        \/ NewFileWatcherChannelAdd(i)

\* The steps of os.RemoveAll in the callers RM[i] of each channel i.
RemoveAllNext(RM) ==
    \E i \in Inst : \E r \in RM[i] :
        \/ RemoveAllReadDir(i, r)
        \/ RemoveAllUnlink(i, r)
        \/ RemoveAllTmp(i, r)
        \/ RemoveAllUnlinkTmp(i, r)
        \/ RemoveAllRmdirTmp(i, r)
        \/ RemoveAllRmdir(i, r)

ReaderNext == \E i \in Inst : ReaderRecv(i)

ReaderEosNext == \E i \in Inst : ReaderEos(i)

NoThreads == [i \in Inst |-> {}]

\* The Send calls of a run are the master's.
MasterSends == [i \in Inst |-> IF i = "m" THEN MaxSends ELSE 0]

(***************************************************************************)
(* Spec: the master sends from one thread; the worker receives, and one    *)
(* thread closes the worker's channel.                                     *)
(***************************************************************************)

Senders1 == [i \in Inst |-> IF i = "m" THEN {"s1"} ELSE {}]

Closers1 == [i \in Inst |-> IF i = "w" THEN {"c1"} ELSE {}]

Init == InitWith({"m", "w"}, MasterSends, 0)

Next ==
    \/ SendNext(Senders1)
    \/ ConsumeNext(Closers1)
    \/ WatchNext
    \/ WatchExitNext
    \/ CloseNext(Closers1, {FALSE})
    \/ ReaderNext
    \/ ReaderEosNext

Spec == Init /\ [][Next]_vars

(***************************************************************************)
(* SpecLong: a master that has sent as many messages as three digits       *)
(* count; the master sends on, and a worker opened on the empty root, its  *)
(* watch loop waiting for events, receives.                                *)
(***************************************************************************)

RECURSIVE Pow10(_)
Pow10(n) == IF n = 0 THEN 1 ELSE 10 * Pow10(n - 1)

\* The last counter that SeqPadWidth digits hold.
LastPadded == Pow10(SeqPadWidth) - 1

InitLong ==
    InitFrom({"m", "w"}, MasterSends, 0,
             [i \in Inst |-> IF i = "m" THEN LastPadded ELSE 0],
             [i \in Inst |-> 0], "select", <<>>)

NextLong ==
    \/ SendNext(Senders1)
    \/ ConsumeNext(NoThreads)
    \/ WatchNext
    \/ ReaderNext

SpecLong == InitLong /\ [][NextLong]_vars

(***************************************************************************)
(* SpecSend: two threads of the master call Send on the same channel; the  *)
(* worker receives.  The environment may fail one file operation.          *)
(***************************************************************************)

Senders2 == [i \in Inst |-> IF i = "m" THEN SenderIds ELSE {}]

InitSend == InitWith({"m", "w"}, MasterSends, MaxFaults)

NextSend ==
    \/ SendNext(Senders2)
    \/ ConsumeNext(NoThreads)
    \/ WatchNext
    \/ ReaderNext

SpecSend == InitSend /\ [][NextSend]_vars

(***************************************************************************)
(* SpecSendClose: one thread of the master calls Send while another calls  *)
(* Close on the same channel; the worker receives.                         *)
(***************************************************************************)

ClosersM == [i \in Inst |-> IF i = "m" THEN {"c1"} ELSE {}]

InitSendClose == InitWith({"m", "w"}, MasterSends, 0)

NextSendClose ==
    \/ SendNext(Senders1)
    \/ ConsumeNext(ClosersM)
    \/ WatchNext
    \/ WatchExitNext
    \/ CloseNext(ClosersM, {FALSE})
    \/ ReaderNext
    \/ ReaderEosNext

SpecSendClose == InitSendClose /\ [][NextSendClose]_vars

(***************************************************************************)
(* SpecSibling: two masters, m and s, are open on one root, in which a     *)
(* worker that has ended left a message.  The master s sends; both masters *)
(* receive.                                                                *)
(***************************************************************************)

SendersS == [i \in Inst |-> IF i = "s" THEN {"s1"} ELSE {}]

\* The send of the worker, finalized before the masters were constructed.
WorkerSend ==
    [inst |-> "w", name |-> SequenceID(ModeOf("w"), NewStartTime("w"), 0),
     data |-> Payload(1)]

InitSibling ==
    InitFrom({"m", "s"}, [i \in Inst |-> IF i = "s" THEN MaxSends ELSE 0], 0,
             [i \in Inst |-> IF i = "w" THEN 1 ELSE 0], [i \in Inst |-> 0],
             "consuming", <<WorkerSend>>)

NextSibling ==
    \/ SendNext(SendersS)
    \/ ConsumeNext(NoThreads)
    \/ WatchNext
    \/ ReaderNext

SpecSibling == InitSibling /\ [][NextSibling]_vars

(***************************************************************************)
(* SpecClose: the master has sent its messages; two threads call Close or  *)
(* Destroy on the worker's channel while its watch loop receives.           *)
(***************************************************************************)

\* The first n sends of the master m, finalized.
MasterSent(n) ==
    [k \in 1..n |->
        [inst |-> "m",
         name |-> SequenceID(ModeOf("m"), NewStartTime("m"), k - 1),
         data |-> Payload(k)]]

Closers2 == [i \in Inst |-> IF i = "w" THEN CloserIds ELSE {}]

\* The number of messages of the master that wait in the root in SpecClose.
ClosePending == 1

InitClose ==
    InitFrom({"m", "w"}, [i \in Inst |-> 0], 0,
             [i \in Inst |-> IF i = "m" THEN ClosePending ELSE 0],
             [i \in Inst |-> 0], "consuming", MasterSent(ClosePending))

NextClose ==
    \/ ConsumeNext(Closers2)
    \/ WatchErrorNext
    \/ WatchExitNext
    \/ CloseNext(Closers2, BOOLEAN)
    \/ DestroyNext(Closers2)
    \/ ReaderNext
    \/ ReaderEosNext

SpecClose == InitClose /\ [][NextClose]_vars

(***************************************************************************)
(* SpecCloseFair: one thread calls Close on the worker's channel; every    *)
(* thread that can take a step eventually takes one.  The environment may  *)
(* fail one file or watcher operation.                                     *)
(***************************************************************************)

NextCloseFair ==
    \/ ConsumeNext(Closers1)
    \/ WatchErrorNext
    \/ WatchExitNext
    \/ CloseNext(Closers1, {FALSE})
    \/ ReaderNext
    \/ ReaderEosNext

\* The steps of the thread c inside Close of the channel i.
CloserSteps(i, c) ==
    \/ CloseSet(i, c)
    \/ CloseSpawn(i, c)
    \/ ConsumeAllList(i, c) \/ ConsumeRead(i, c) \/ ConsumeRemove(i, c)
    \/ ConsumeSetCounter(i, c) \/ ConsumePush(i, c)

\* The steps of the teardown task that the thread c started.
TeardownSteps(i, c) ==
    TearRemove(i, c) \/ TearClose(i, c) \/ TearDeferred(i, c)

\* The steps of the watch loop of the channel i.
WatchSteps(i) ==
    \/ WatchEvent(i) \/ WatchExit(i)
    \/ ConsumeAllList(i, WatchLoop) \/ ConsumeRead(i, WatchLoop)
    \/ ConsumeRemove(i, WatchLoop) \/ ConsumeSetCounter(i, WatchLoop)
    \/ ConsumePush(i, WatchLoop)

\* The scheduler runs every goroutine that can run, and the owner of the
\* channel keeps reading its stream.
Fairness ==
    /\ WF_vars(CloserSteps("w", "c1"))
    /\ WF_vars(TeardownSteps("w", "c1"))
    /\ WF_vars(WatchSteps("w"))
    /\ WF_vars(ReaderRecv("w") \/ ReaderEos("w"))

InitCloseFair ==
    InitFrom({"m", "w"}, [i \in Inst |-> 0], MaxFaults,
             [i \in Inst |-> IF i = "m" THEN MaxSends ELSE 0],
             [i \in Inst |-> 0], "consuming", MasterSent(MaxSends))

SpecCloseFair == InitCloseFair /\ [][NextCloseFair]_vars /\ Fairness

(***************************************************************************)
(* Claims                                                                  *)
(***************************************************************************)

\* The payload d is the payload of a finalized send.
WasSent(d) == \E k \in 1..Len(sentLog) : sentLog[k].data = d

\* The place of the payload d among the finalized sends.
SentPos(d) == CHOOSE k \in 1..Len(sentLog) : sentLog[k].data = d

\* C1: a receiver pushes the payloads of its peer onto its output stream in
\* the order they were sent: of two payloads it pushed, the one pushed first
\* was not sent after the other, whatever notifications arrived, in whatever
\* order.
C1_DeliveredInSendOrder ==
    \A i \in Inst : \A p, q \in 1..Len(recvLog[i]) :
        (p < q /\ WasSent(recvLog[i][p].data) /\ WasSent(recvLog[i][q].data))
            => SentPos(recvLog[i][p].data) <= SentPos(recvLog[i][q].data)

\* The finalized sends of the channel i, in the order of their renames.
SentBy(i) == SelectSeq(sentLog, LAMBDA e : e.inst = i)

\* The text holds bytes of one payload only (the payloads of a run share no
\* byte).
OnePayload(text) == \A j, k \in 1..Len(text) : text[j] = text[k]

\* C2: the Sends of one channel, also when they run on several threads, use
\* distinct and strictly increasing counters, hence distinct sequence file
\* names, and no finalized file holds bytes of two payloads.
C2_DistinctCounters ==
    /\ \A i \in Inst : \A p, q \in 1..Len(SentBy(i)) :
          p < q => parseSequenceCounter(SentBy(i)[p].name)
                     < parseSequenceCounter(SentBy(i)[q].name)
    /\ \A name \in DOMAIN rootFiles : OnePayload(rootFiles[name])

\* C3: once closed is true no Send places a file in the root or advances the
\* counter: no step taken while closed is true finalizes a send of the
\* channel or changes its counter.
C3_NoSendAfterClosed ==
    [][\A i \in Inst :
          closed[i] => /\ counter'[i] = counter[i]
                       /\ Len(SentBy(i)') = Len(SentBy(i))]_vars

\* C4: each finalized message file is pushed onto the receiver's output
\* stream at most once, also when the watch loop and the consumeAll of Close
\* interleave: no two pushes of a channel are of the same file.
C4_PushedAtMostOnce ==
    \A i \in Inst : \A p, q \in 1..Len(recvLog[i]) :
        p # q => recvLog[i][p].name # recvLog[i][q].name

\* C5: in every reachable state each message file of the root holds exactly
\* the complete payload of a Send that finalized this file, and every
\* payload a receiver read is the complete payload of a finalized Send.
C5_RootFilesWhole ==
    /\ \A name \in DOMAIN rootFiles :
          \E k \in 1..Len(sentLog) :
              /\ sentLog[k].name = name
              /\ sentLog[k].data = rootFiles[name]
    /\ \A i \in Inst : \A p \in 1..Len(recvLog[i]) :
          WasSent(recvLog[i][p].data)

\* No Send call of the channel i is in progress.
SendsIdle(i) == \A t \in SenderIds : sendPc[i][t] = "idle"

\* C6: a failed Send leaves the counter unchanged and a successful Send
\* advances it by one: whenever no Send of a channel is in progress its
\* counter is the number of its finalized sends, and their sequence numbers
\* are 0, 1, ... without a gap.
C6_CounterCountsSends ==
    \A i \in Inst :
        SendsIdle(i) =>
            /\ counter[i] = Len(SentBy(i))
            /\ \A p \in 1..Len(SentBy(i)) :
                  parseSequenceCounter(SentBy(i)[p].name) = p - 1

\* The role segment of a sequence file name: the text before its first dash.
RoleSegment(filename) ==
    LET base == PathBase(filename)
        dashes == {k \in 1..Len(base) : base[k] = "-"}
    IN  IF dashes = {} THEN base
        ELSE SubSeq(base, 1, (CHOOSE k \in dashes : \A j \in dashes : k <= j) - 1)

\* C7: a channel never reads, deletes or pushes onto its output stream a
\* message file whose role segment is its own mode, in the event path and
\* in every consumeAll pass, also when another channel of the same role
\* writes into the same root.
C7_NeverConsumesOwnRole ==
    \A i \in Inst :
        /\ \A e \in accessLog[i] : RoleSegment(e.name) # mode[i]
        /\ \A p \in 1..Len(recvLog[i]) : RoleSegment(recvLog[i][p].name) # mode[i]

\* The master m has read, deleted and pushed the file of the worker, a file
\* of its sibling master s lies in the root, and the creation event of that
\* file waits in the queue of m.
C7_Witness ==
    /\ \E p \in 1..Len(recvLog["m"]) :
          /\ RoleSegment(recvLog["m"][p].name) = ModeWorker
          /\ [op |-> "read", name |-> recvLog["m"][p].name] \in accessLog["m"]
          /\ [op |-> "remove", name |-> recvLog["m"][p].name] \in accessLog["m"]
    /\ \E k \in 1..Len(SentBy("s")) :
          /\ SentBy("s")[k].name \in DOMAIN rootFiles
          /\ BagIn(CreateEvent(SentBy("s")[k].name), events["m"])

\* The thread c, in Close of the channel i, waits for a reader: it is at the
\* push of a consumed payload and the output stream is full.
CloseWaits(i, c) ==
    /\ Alive(i)
    /\ closePc[i][c] # "idle"
    /\ cons[i][c].pc = "push"
    /\ ~onMessageChan[i].closed
    /\ Len(onMessageChan[i].buf) >= defaultChannelBufferSize

\* C10: Close returns without waiting on another thread, for every number
\* of pending peer files and every fill level of the output stream: no
\* thread inside Close is ever waiting for a reader of the stream.
C10_CloseNeverWaits ==
    \A i \in Inst : \A c \in CloserIds : ~CloseWaits(i, c)

\* The teardown tasks started on the channel i.
Teardowns(i) == {c \in CloserIds : tearPc[i][c] # "none"}

\* C8: calling Close, directly or through Destroy, more than once on one
\* channel, from any threads, is the same as calling it once: at most one
\* teardown task is started, and no call or task panics (a second close of
\* the output stream would).
C8_CloseOnce ==
    \A i \in Inst :
        /\ Cardinality(Teardowns(i)) <= 1
        /\ panicked[i] \notin CloserIds \cup {TeardownTask}

\* C9: after Close the output stream is eventually closed, whether the
\* release of the watch succeeds, fails or faults, and the reader of the
\* stream eventually sees its end.
C9_EventuallyEndOfStream ==
    \A i \in Inst :
        closed[i] ~> (onMessageChan[i].closed /\ reader[i] = "eos")


\* The files that were pending in the root when Close set closed.
PendingNames(i) == {e.name : e \in {x \in accessLog[i] : x.op = "pending"}}

\* The files a channel pushed onto its stream.
PushedNames(i) == {recvLog[i][k].name : k \in 1..Len(recvLog[i])}

\* C11: once the stream of a channel is closed, every readable peer file that
\* was in the root when Close() set closed has been pushed onto the stream
\* and is gone from the root.
C11_PendingDrainedBeforeStreamClosed ==
    \A i \in Inst :
        onMessageChan[i].closed =>
            \A name \in PendingNames(i) :
                /\ name \in PushedNames(i)
                /\ name \notin DOMAIN rootFiles

(***************************************************************************)
(* SpecEndToEnd: the master sends from one thread; the worker's channel is *)
(* opened on the same root at any moment of the run, before, between or    *)
(* after the sends, and its owner reads the stream.  The root is one of    *)
(* RootPaths, and the environment may fail an operation.  Every thread     *)
(* that can take a step eventually takes one.                              *)
(***************************************************************************)

InitEndToEnd ==
    /\ InitChannels({"m"}, MasterSends, MaxFaults, [i \in Inst |-> 0],
                    [i \in Inst |-> 0], "select", <<>>)
    /\ path \in RootPaths
    /\ proc = NoProc

NextEndToEnd ==
    \/ SendNext(Senders1)
    \/ OpenNext({"w"})
    \/ RemoveAllNext([i \in Inst |-> {Constructor}])
    \/ ConsumeNext(NoThreads)
    \/ WatchNext
    \/ ReaderNext

\* The steps of the thread t inside Send of the channel i, once it has called.
SenderSteps(i, t) ==
    \/ SendOpen(i, t) \/ SendWrite(i, t) \/ SendRename(i, t)
    \/ SendIncrRead(i, t) \/ SendIncrWrite(i, t)

FairnessEndToEnd ==
    /\ WF_vars(SenderSteps("m", "s1"))
    /\ WF_vars(OpenNext({"w"}) \/ RemoveAllNext([i \in Inst |-> {Constructor}]))
    /\ WF_vars(WatchSteps("w"))
    /\ WF_vars(ReaderRecv("w"))

SpecEndToEnd == InitEndToEnd /\ [][NextEndToEnd]_vars /\ FairnessEndToEnd

\* The n-th finalized send has been pushed onto the stream of the channel i
\* and taken from it by the reader.
Yielded(i, n) ==
    /\ \E k \in 1..Len(recvLog[i]) :
          /\ recvLog[i][k].name = sentLog[n].name
          /\ recvLog[i][k].data = sentLog[n].data
    /\ \A q \in 1..Len(onMessageChan[i].buf) :
          onMessageChan[i].buf[q] # sentLog[n].data

\* C12: once the worker's channel is open, every payload the master sent,
\* before or after the opening, is eventually yielded by the worker's stream,
\* its file is then gone from the root, and no file is left in tmp once the
\* sender is idle; this in every run in which no operation of the
\* environment fails (a failed Send is not a successful one, and a failed
\* constructor opens no channel).
C12_EveryPayloadYielded ==
    \A n \in 1..MaxSends :
        (Len(sentLog) >= n /\ chState["w"] = "open") ~>
            \/ faultsLeft < MaxFaults
            \/ /\ Len(sentLog) >= n
               /\ Yielded("w", n)
               /\ sentLog[n].name \notin DOMAIN rootFiles
               /\ (SendsIdle("m") => tmpFiles = <<>>)

(***************************************************************************)
(* SpecDestroy: a master and a worker open on an empty root, their watch   *)
(* loops waiting for events; one thread of each calls Destroy, a thread of *)
(* the worker calls Send, and the owners read the streams.  No operation   *)
(* of the environment fails.                                               *)
(***************************************************************************)

ClosersD == [i \in Inst |-> IF i \in {"m", "w"} THEN {"c1"} ELSE {}]

InitDestroy ==
    InitFrom({"m", "w"}, [i \in Inst |-> IF i = "w" THEN RacingSends ELSE 0],
             0, [i \in Inst |-> 0], [i \in Inst |-> 0], "select", <<>>)

NextDestroy ==
    \/ SendNext([i \in Inst |-> IF i = "w" THEN {"s1"} ELSE {}])
    \/ RemoveAllNext(ClosersD)
    \/ ConsumeNext(ClosersD)
    \/ WatchNext
    \/ WatchExitNext
    \/ CloseNext(ClosersD, {TRUE})
    \/ DestroyNext(ClosersD)
    \/ ReaderNext
    \/ ReaderEosNext

SpecDestroy == InitDestroy /\ [][NextDestroy]_vars

\* The thread c of the channel i takes the last step of Destroy.
DestroyStep(i, c) ==
    /\ closePc[i][c] \in {"destroy", "removeall"}
    /\ closePc'[i][c] = "returned"

\* The files in the root that carry the role md in their name.
FilesOfRole(md) == {n \in DOMAIN rootFiles : RoleSegment(n) = md}

\* The places of the threads of the channel i: a step that changes them is a
\* step of an operation of the channel.
Places(i) == <<sendPc[i], closePc[i], tearPc[i], watchPc[i], cons[i]>>

\* C13: Destroy has closed the channel when it comes to the root; a worker's
\* Destroy returns leaving the root, tmp and every file in them as they are,
\* a master's Destroy returns with the root and all it held removed; and no
\* step of an open worker channel removes the root or a file of the worker's
\* role.
C13_OnlyMasterRemovesRoot ==
    [][/\ \A i \in Inst : \A c \in CloserIds :
            DestroyStep(i, c) =>
                /\ closed[i]
                /\ IF mode[i] = ModeMaster
                   THEN ~rootExists' /\ rootFiles' = <<>> /\ tmpFiles' = <<>>
                   ELSE UNCHANGED <<rootExists, rootFiles, tmpFiles>>
       /\ \A i \in Inst :
            (mode[i] = ModeWorker /\ chState[i] = "open" /\ Places(i)' # Places(i))
               => /\ rootExists' = rootExists
                  /\ FilesOfRole(ModeWorker) \subseteq DOMAIN rootFiles']_vars

(***************************************************************************)
(* SpecOpen: a master open on a root that holds a message of each role; a  *)
(* worker and a second master are opened on the root while a thread of the *)
(* master calls Send, and the environment may fail a step of a constructor *)
(* or a file operation.                                                    *)
(***************************************************************************)

InitOpen ==
    InitFrom({"m"}, [i \in Inst |-> IF i = "m" THEN RacingSends ELSE 0],
             MaxFaults,
             [i \in Inst |-> IF i \in {"m", "w"} THEN 1 ELSE 0],
             [i \in Inst |-> 0], "select", MasterSent(1) \o <<WorkerSend>>)

NextOpen ==
    \/ OpenNext({"w", "s"})
    \/ RemoveAllNext([i \in Inst |-> {Constructor}])
    \/ SendNext(Senders1)
    \/ ConsumeNext(NoThreads)
    \/ WatchNext
    \/ ReaderNext

SpecOpen == InitOpen /\ [][NextOpen]_vars

\* C14: a constructor whose step fails returns no channel and, when it
\* returns, leaves no root (nor tmp, nor a file in them), no watch and no
\* watch loop, and the channel never takes a step; a constructor returns a
\* channel only with the root there, the watch registered and the watch loop
\* started.
C14_FailedOpenLeavesNothing ==
    [][\A i \in Inst :
          /\ (chState[i] # "failed" /\ chState'[i] = "failed") =>
                /\ ~rootExists' /\ rootFiles' = <<>> /\ tmpFiles' = <<>>
                /\ ~watcher'[i].watching
                /\ watchPc'[i] = "none"
                /\ cons'[i] = cons[i]
          /\ (chState[i] # "open" /\ chState'[i] = "open") =>
                /\ rootExists'
                /\ watcher'[i].watching /\ ~watcher'[i].closed
                /\ watchPc'[i] = "consuming"
          /\ chState[i] # "open" =>
                /\ watchPc[i] = "none"
                /\ cons[i][WatchLoop] = IdleCons
                /\ chState'[i] # "open" => Places(i)' = Places(i)]_vars

(***************************************************************************)
(* SpecProc: find_process is called once, for each process table of up to  *)
(* MaxRows rows and each pid and start time asked for.                     *)
(***************************************************************************)

\* The largest number of rows of a process table.
MaxRows == 2

\* Start times as ps prints them: of today, and of an earlier day.
StartA == <<"1", "0", ":", "0", "0", ":", "0", "0">>

StartB == <<"1", "0", ":", "0", "0", ":", "0", "1">>

StartMonth == <<"O", "c", "t">>

StartDay == <<"2", "9">>

\* The rows of a process table: a pid and the tokens of its start time.
ProcRows ==
    [pid : {7, 12}, start : {<<StartA>>, <<StartB>>, <<StartMonth, StartDay>>}]

ProcTables == UNION {[1..n -> ProcRows] : n \in 0..MaxRows}

\* The header line that ps -o pid,start prints.
PsHeader == <<" ", " ", "P", "I", "D", " ", " ", "S", "T", "A", "R", "T",
              "E", "D">>

\* The tokens of a start time, each after a space.
JoinTokens(tokens) ==
    LET f[k \in 0..Len(tokens)] ==
            IF k = 0 THEN <<>> ELSE f[k - 1] \o <<" ">> \o tokens[k]
    IN  f[Len(tokens)]

\* A row as ps prints it.
PsRow(r) == <<" ", " ">> \o Digits(r.pid) \o JoinTokens(r.start)

\* The output of ps for a process table: the header and a line per row.
PsOutput(table) ==
    LET f[k \in 0..Len(table)] ==
            IF k = 0 THEN PsHeader \o <<"\n">>
            ELSE f[k - 1] \o PsRow(table[k]) \o <<"\n">>
    IN  f[Len(table)]

\* ps() gives the output for a table, or fails.
PsResults(table) ==
    {[output |-> PsOutput(table), err |-> "nil"],
     [output |-> <<>>, err |-> "exec"]}

InitProc ==
    /\ InitChannels({}, [i \in Inst |-> 0], 0, [i \in Inst |-> 0],
                    [i \in Inst |-> 0], "select", <<>>)
    /\ path = RootPath
    /\ \E table \in ProcTables : \E ps \in PsResults(table) :
       \E pid \in {3, 7, 12} : \E start \in {StartA, StartB, StartMonth} :
          proc = [pc |-> "call", table |-> table, ps |-> ps, pid |-> pid,
                  startTime |-> start, result |-> NotFound]

NextProc == FindProcess

SpecProc == InitProc /\ [][NextProc]_vars

\* The process table lists the process pid with the start time start.
Listed(table, pid, start) ==
    \E k \in 1..Len(table) :
        table[k].pid = pid /\ table[k].start = <<start>>

\* C15: for every process table that ps prints, find_process returns true
\* only if a row of the table has the pid and a start time that is the
\* expected one, character by character; and when no row has, whether the
\* pid is listed with another start time or not at all, it returns false and
\* no error.
C15_AliveOnlyOnExactMatch ==
    (proc.pc = "returned" /\ proc.ps.err = "nil") =>
        /\ proc.result.alive => Listed(proc.table, proc.pid, proc.startTime)
        /\ ~Listed(proc.table, proc.pid, proc.startTime) =>
              proc.result = NotFound

\* find_process has returned false on a table that lists the pid with
\* another start time only.
C15_Witness ==
    /\ proc.pc = "returned"
    /\ proc.ps.err = "nil"
    /\ \E k \in 1..Len(proc.table) : proc.table[k].pid = proc.pid
    /\ ~Listed(proc.table, proc.pid, proc.startTime)
    /\ proc.result = NotFound

\* The files a consumer is to take in the pass it is in, in order.
PassOf(k) == IF k.pc = "read" THEN <<PathBase(k.cur)>> \o k.list ELSE <<>>

\* The part of a sequence id before its counter: the role and start time of
\* the sender.
SenderOf(name) == SubSeq(name, 1, LastIndex(name, "-"))

\* C16: a watch loop that takes a qualifying creation event whose counter is
\* recvCounter consumes that file alone; on any other counter it lists the
\* root once, and the pass takes every qualifying file then in the root, the
\* files of a sender in ascending order of their counters.
C16_EventDispatch ==
    [][\A i \in Inst :
          /\ (watchPc[i] = "select" /\ watchPc'[i] = "consuming") =>
                \E ev \in BagToSet(events[i] (-) events'[i]) :
                    IF parseSequenceCounter(ev.name) = recvCounter[i]
                    THEN PassOf(cons'[i][WatchLoop]) = <<PathBase(ev.name)>>
                    ELSE cons'[i][WatchLoop].pc = "readdir"
          /\ (cons[i][WatchLoop].pc = "readdir"
                /\ cons'[i][WatchLoop].pc # "readdir") =>
                /\ {PassOf(cons'[i][WatchLoop])[p] :
                       p \in 1..Len(PassOf(cons'[i][WatchLoop]))}
                     = {n \in DOMAIN rootFiles : isReadable(i, n)}
                /\ \A p, q \in 1..Len(PassOf(cons'[i][WatchLoop])) :
                      (/\ p < q
                       /\ SenderOf(PassOf(cons'[i][WatchLoop])[p])
                            = SenderOf(PassOf(cons'[i][WatchLoop])[q]))
                      => parseSequenceCounter(PassOf(cons'[i][WatchLoop])[p])
                           < parseSequenceCounter(PassOf(cons'[i][WatchLoop])[q])
      ]_vars

(***************************************************************************)
(* SpecRestart: the worker is open on a root that holds the messages of a  *)
(* master that is gone; a master started later on the same root sends.     *)
(***************************************************************************)

InitRestart ==
    InitFrom({"w", "s"}, [i \in Inst |-> IF i = "s" THEN MaxSends ELSE 0],
             0, [i \in Inst |-> IF i = "m" THEN MaxSends ELSE 0],
             [i \in Inst |-> 0], "consuming", MasterSent(MaxSends))

NextRestart ==
    \/ SendNext(SendersS)
    \/ ConsumeNext(NoThreads)
    \/ WatchNext
    \/ ReaderNext

SpecRestart == InitRestart /\ [][NextRestart]_vars

\* C17: recvCounter never decreases, and it changes only in the step of a
\* consume that has read and removed a file, to the counter of that file
\* plus one.
C17_RecvCounterMonotone ==
    [][\A i \in Inst :
          /\ recvCounter'[i] >= recvCounter[i]
          /\ recvCounter'[i] # recvCounter[i] =>
                \E c \in ConsumerIds :
                    /\ cons[i][c].pc = "setctr"
                    /\ recvCounter'[i] = parseSequenceCounter(cons[i][c].cur) + 1
                    /\ {[op |-> "read", name |-> PathBase(cons[i][c].cur)],
                        [op |-> "remove", name |-> PathBase(cons[i][c].cur)]}
                          \subseteq accessLog[i]]_vars

(***************************************************************************)
(* SpecFaulty: as SpecRestart, and the environment may fail a file         *)
(* operation or drop a notification.                                       *)
(***************************************************************************)

\* The number of Send calls of the later master in SpecFaulty.
FaultySends == 1

InitFaulty ==
    InitFrom({"w", "s"}, [i \in Inst |-> IF i = "s" THEN FaultySends ELSE 0],
             MaxFaults, [i \in Inst |-> IF i = "m" THEN MaxSends ELSE 0],
             [i \in Inst |-> 0], "consuming", MasterSent(MaxSends))

SpecFaulty == InitFaulty /\ [][NextRestart]_vars

\* The consumer c of the channel i takes the step of a read that the
\* environment fails.
FailedRead(i, c) ==
    /\ cons[i][c].pc = "read"
    /\ cons'[i][c] # cons[i][c]
    /\ faultsLeft' # faultsLeft

\* C18: when the read of a file fails in consume, the file stays in the
\* root, recvCounter stays, nothing is pushed, and the consumer goes on with
\* the files that were left of its pass, the failed one not among them.
C18_FailedReadSkipsFile ==
    [][\A i \in Inst : \A c \in ConsumerIds :
          FailedRead(i, c) =>
              /\ PathBase(cons[i][c].cur) \in DOMAIN rootFiles'
              /\ UNCHANGED <<rootFiles, recvCounter, recvLog, onMessageChan>>
              /\ cons'[i][c].pc \in {"idle", "read"}
              /\ PassOf(cons'[i][c]) = cons[i][c].list
              /\ \A p \in 1..Len(cons[i][c].list) :
                    cons[i][c].list[p] # PathBase(cons[i][c].cur)]_vars

\* The worker's start-up pass is over: the read of the first file failed, the
\* file is still in the root, and the second file was delivered.
C18_Witness ==
    /\ faultsLeft < MaxFaults
    /\ watchPc["w"] = "select"
    /\ MasterSent(MaxSends)[1].name \in DOMAIN rootFiles
    /\ MasterSent(MaxSends)[1].name \notin PushedNames("w")
    /\ MasterSent(MaxSends)[2].name \in PushedNames("w")
    /\ recvCounter["w"] = 2

\* C19: of two messages that one instance sent, the file name of the earlier
\* one sorts strictly before that of the later one, whatever the counter has
\* come to.
C19_NamesSortBySendOrder ==
    \A p, q \in 1..Len(sentLog) :
        (p < q /\ sentLog[p].inst = sentLog[q].inst)
            => StrLess(sentLog[p].name, sentLog[q].name)

\* C20: the watch loop never comes to push a payload onto a stream that the
\* teardown task has closed.
C20_NoPushAfterStreamClosed ==
    \A i \in Inst :
        /\ ~(onMessageChan[i].closed /\ cons[i][WatchLoop].pc = "push")
        /\ panicked[i] # WatchLoop

=============================================================================
